---- MODULE Spec2Model ----
(***************************************************************************)
(* Availability / booking service over a remote document store.            *)
(* Two collections: calendar (one document per date, keyed by the date)    *)
(* and bookings (store-assigned identifiers).  Every service function is   *)
(* an async function: it runs up to its next await, the store call takes   *)
(* effect, and the continuation runs.  Callers run concurrently, so the    *)
(* steps of different calls interleave at the awaits.                      *)
(***************************************************************************)
EXTENDS Integers, Sequences, FiniteSets, TLC

\* ------------------------------------------------------------ bounds
\* Number of store writes a behaviour may commit (ticks of the write clock).
MaxClock == 4
\* Number of booking records a behaviour may add.
MaxBookings == 2

\* ------------------------------------------------------------ input sets
\* Concurrent callers: the browser sessions of two clients, named by the
\* client's e-mail address, and the session of an administrator.
Clients == {"a@x.com", "b@x.com"}
Admin == "admin"
Procs == Clients \cup {Admin}
\* Calendar-day keys; the order of the integers is the order of the
\* YYYY-MM-DD strings they stand for.
Dates == {1, 2}
Times == {"10:00", "11:00"}
Statuses == {"pending", "confirmed", "cancelled"}
\* Errors the store client can reject a call with.
StoreErrors == {"unavailable", "permission-denied"}
\* The error updateDoc rejects with when the document does not exist.
NotFound == "not-found"

Empty == [x \in {} |-> x]

\* ------------------------------------------------------------ documents
\* A document is a map from field names to values.
FreeSlot(t) == [time |-> t, isAvailable |-> TRUE]

\* slots arguments an administrator may pass to setDateAvailability; the
\* type TimeSlot[] does not make the times unique.
SlotLists ==
  { <<FreeSlot("10:00"), FreeSlot("11:00")>>,
    <<FreeSlot("10:00"), FreeSlot("10:00")>> }

TwiceTen == <<FreeSlot("10:00"), FreeSlot("10:00")>>

\* A booking payload as a caller passes it to createBooking.
Payload(d, t, c, s) ==
  [serviceId |-> "svc1", serviceName |-> "Cut", date |-> d, time |-> t,
   clientName |-> "A", clientEmail |-> c, clientPhone |-> "+1", status |-> s]

VARIABLES
  cal,       \* calendar collection: date key -> document
  bookings,  \* bookings collection: identifier -> document
  clock,     \* Timestamp.now(), advanced by every committed write
  pc,        \* per caller: the await its call is suspended at
  op,        \* per caller: the call in progress and its arguments
  snap,      \* per caller: the snapshot bookTimeSlot read
  docRef,    \* per caller: the reference addDoc returned (0: none)
  settled,   \* per caller: how the Promise.all of its batch settled
  raised,    \* per caller: the errors its store calls rejected with
  calls,     \* per caller: the store calls the call has issued
  pend,      \* per caller: writes of setBatchAvailability still in flight
  stamp,     \* per caller: calendar date -> clock of the call's write to it
  ret,       \* the return of a call, in the state its last step leads to
  subs,      \* per listener: whether it is registered, and its deliveries
  form       \* per client: the state of the client details form

locals == <<pc, op, snap, docRef, settled, raised, calls, pend, stamp>>
\* What the pages of the application hold; no service function touches it.
ui == <<subs, form>>
vars == <<cal, bookings, clock, locals, ret, ui>>

\* ------------------------------------------------------------ the store
\* Field-wise merge of a write into a document.
Merge(old, new) ==
  [f \in (DOMAIN old) \cup (DOMAIN new) |->
     IF f \in DOMAIN new THEN new[f] ELSE old[f]]

Put(coll, id, data) ==
  [k \in (DOMAIN coll) \cup {id} |-> IF k = id THEN data ELSE coll[k]]

\* setDoc(ref, data, { merge: true })
SetDocMerge(coll, id, data) ==
  Put(coll, id, IF id \in DOMAIN coll THEN Merge(coll[id], data) ELSE data)

\* setDoc(ref, data)
SetDoc(coll, id, data) == Put(coll, id, data)

\* Variant: an updateDoc that creates the document it does not find.
UpdateDocUpserts(coll, id) == {}

\* updateDoc(ref, data): the store rejects it when the document does not
\* exist, and otherwise writes the given fields into the document.
UpdateDocRejections(coll, id) == IF id \in DOMAIN coll THEN {} ELSE {NotFound}

UpdateDoc(coll, id, data) == SetDocMerge(coll, id, data)

\* addDoc(coll, data): the store assigns a fresh identifier.
NewId(coll) == Cardinality(DOMAIN coll) + 1

\* getDoc(ref)
NoSnap == [exists |-> FALSE]

GetDoc(coll, id) ==
  IF id \in DOMAIN coll THEN [exists |-> TRUE, data |-> coll[id]] ELSE NoSnap

Null == [null |-> TRUE]
Void == [void |-> TRUE]

Ok(v) == [kind |-> "ok", value |-> v]
Err(e) == [kind |-> "err", error |-> e]
NoResult == [kind |-> "none"]

\* ------------------------------------------------------------ callers
NoOp == [name |-> "none"]

\* A call that returned hands its result to its caller before anything else
\* runs.
Running == ret.proc = "none"

Ready(p) == Running /\ pc[p] = "ready"

\* What the caller p of the call o observes when it returns: its result, the
\* errors the store rejected with, the store calls issued, the snapshot read
\* (sn), the booking reference (id), the calendar writes committed (st) and
\* the state of the document its last write replaced (repl).
Returns(p, o, res, errs, cs, sn, id, st, repl) ==
  ret' = [proc |-> p, op |-> o, result |-> res, raised |-> errs, calls |-> cs,
          snap |-> sn, docRef |-> id, stamp |-> st, replaced |-> repl]

\* A step in which no call returns.
NoReturn == [proc |-> "none"]

Suspends == ret' = NoReturn

\* The two listeners a page can register, and a listener not registered.
Listeners == {"availability", "bookings"}

NoListener == [state |-> "none", startDate |-> 0, endDate |-> 0,
               seen |-> <<>>, n |-> 0]

\* What the client details form holds when it is mounted: the props
\* bookingData (service, date, time; none chosen yet), the state formData
\* (name, email, phone, message), isSubmitting and slotStatus; with them the
\* notice shown last, the createBooking calls of the form that have not
\* completed, and the calls of onSubmit.
NoDetails ==
  [service |-> "", date |-> 0, time |-> "",
   name |-> "", email |-> "", phone |-> "", message |-> ""]

NewForm ==
  [data |-> NoDetails, isSubmitting |-> FALSE, slotStatus |-> "null",
   notice |-> "", inFlight |-> 0, onSubmit |-> 0]

\* The frame of a call ends: its local variables are gone.
Ends(p) ==
  /\ pc' = [pc EXCEPT ![p] = "ready"]
  /\ op' = [op EXCEPT ![p] = NoOp]
  /\ snap' = [snap EXCEPT ![p] = NoSnap]
  /\ docRef' = [docRef EXCEPT ![p] = 0]
  /\ settled' = [settled EXCEPT ![p] = NoResult]
  /\ raised' = [raised EXCEPT ![p] = <<>>]
  /\ calls' = [calls EXCEPT ![p] = <<>>]
  /\ pend' = [pend EXCEPT ![p] = {}]
  /\ stamp' = [stamp EXCEPT ![p] = Empty]

Init ==
  /\ cal = Empty
  /\ bookings = Empty
  /\ clock = 1
  /\ pc = [p \in Procs |-> "ready"]
  /\ op = [p \in Procs |-> NoOp]
  /\ snap = [p \in Procs |-> NoSnap]
  /\ docRef = [p \in Procs |-> 0]
  /\ settled = [p \in Procs |-> NoResult]
  /\ raised = [p \in Procs |-> <<>>]
  /\ calls = [p \in Procs |-> <<>>]
  /\ pend = [p \in Procs |-> {}]
  /\ stamp = [p \in Procs |-> Empty]
  /\ ret = NoReturn
  /\ subs = [l \in Listeners |-> NoListener]
  /\ form = [p \in Clients |-> NewForm]

\* The caller of the call that returned takes the result.
Resume ==
  /\ ~Running
  /\ ret' = NoReturn
  /\ UNCHANGED <<cal, bookings, clock, locals, ui>>

\* Variant: a catch block that throws an error of its own.
RethrowWrapped(e) == "wrapped"

\* A catch block that logs and throws the error it caught.
Rethrow(e) == e

\* ------------------------------------------------------------ availability
\* The default value of the slots parameter.
SlotsOrDefault(args) == IF "slots" \in DOMAIN args THEN args.slots ELSE <<>>

\* The data setDateAvailability hands to setDoc.
AvailabilityData(date, isAvailable, slots, now) ==
  [date |-> date, isAvailable |-> isAvailable, slots |-> slots,
   updatedAt |-> now]

\* The calendar after the setDoc of setDateAvailability(args).
SdaWritten(coll, args, now) ==
  SetDocMerge(coll, args.date,
    AvailabilityData(args.date, args.isAvailable, SlotsOrDefault(args), now))

\* setDateAvailability(date, isAvailable, slots = [])
SetDateAvailability(p, args) ==
  /\ Ready(p)
  /\ LET o == [name |-> "setDateAvailability", args |-> args] IN
     \/ /\ clock <= MaxClock
        /\ cal' = SdaWritten(cal, args, clock)
        /\ clock' = clock + 1
        /\ Returns(p, o, Ok(Void), <<>>, <<"setDoc">>, NoSnap, 0,
                   Put(Empty, args.date, clock), GetDoc(cal, args.date))
     \/ \E e \in StoreErrors :
        /\ Returns(p, o, Err(Rethrow(e)), <<e>>, <<"setDoc">>, NoSnap, 0,
                   Empty, NoSnap)
        /\ UNCHANGED <<cal, clock>>
  /\ UNCHANGED <<bookings, locals, ui>>

\* Variant: a combinator that reports the rejection it saw last.
PromiseAllLastError(was, left, outcome) ==
  IF outcome.kind = "err" THEN Err(outcome.error)
  ELSE IF was.kind # "none" THEN was
  ELSE IF left = {} THEN Ok(Void)
  ELSE NoResult

\* Promise.all: rejects with the first rejection, resolves when every
\* promise has resolved; once settled it stays as it settled.
PromiseAll(was, left, outcome) ==
  IF was.kind # "none" THEN was
  ELSE IF outcome.kind = "err" THEN Err(Rethrow(outcome.error))
  ELSE IF left = {} THEN Ok(Void)
  ELSE NoResult

\* setBatchAvailability(dates, isAvailable): every setDateAvailability of
\* dates.map runs to its await, so the call issues every setDoc.
SetBatchAvailability(p, dates, isAvailable) ==
  /\ Ready(p)
  /\ LET o == [name |-> "setBatchAvailability", dates |-> dates,
               isAvailable |-> isAvailable] IN
     IF dates = <<>>
     THEN /\ Returns(p, o, PromiseAll(NoResult, {}, Ok(Void)), <<>>, <<>>,
                     NoSnap, 0, Empty, NoSnap)
          /\ UNCHANGED locals
     ELSE /\ op' = [op EXCEPT ![p] = o]
          /\ pc' = [pc EXCEPT ![p] = "batch"]
          /\ pend' = [pend EXCEPT ![p] = DOMAIN dates]
          /\ calls' = [calls EXCEPT ![p] = [i \in DOMAIN dates |-> "setDoc"]]
          /\ Suspends
          /\ UNCHANGED <<snap, docRef, settled, raised, stamp>>
  /\ UNCHANGED <<cal, bookings, clock, ui>>

\* One setDoc of a batch settles.  The caller gets the result when the
\* Promise.all settles; the writes still in flight settle afterwards.
BatchSettle(p, i) ==
  /\ Running
  /\ pc[p] = "batch"
  /\ i \in pend[p]
  /\ LET d == op[p].dates[i]
         left == pend[p] \ {i}
         Step(outcome, errs, st, repl) ==
           LET now == PromiseAll(settled[p], left, outcome) IN
           /\ IF settled[p].kind = "none" /\ now.kind # "none"
              THEN Returns(p, op[p], now, errs, calls[p], NoSnap, 0, st, repl)
              ELSE Suspends
           /\ IF left = {} THEN Ends(p)
              ELSE /\ pend' = [pend EXCEPT ![p] = left]
                   /\ settled' = [settled EXCEPT ![p] = now]
                   /\ raised' = [raised EXCEPT ![p] = errs]
                   /\ stamp' = [stamp EXCEPT ![p] = st]
                   /\ UNCHANGED <<pc, op, snap, docRef, calls>>
     IN
     \/ /\ clock <= MaxClock
        /\ cal' = SdaWritten(cal, [date |-> d, isAvailable |-> op[p].isAvailable],
                             clock)
        /\ clock' = clock + 1
        /\ Step(Ok(Void), raised[p], Put(stamp[p], d, clock), GetDoc(cal, d))
     \/ \E e \in StoreErrors :
        /\ Step(Err(Rethrow(e)), Append(raised[p], e), stamp[p], NoSnap)
        /\ UNCHANGED <<cal, clock>>
  /\ UNCHANGED <<bookings, ui>>

\* Variant: a reader that hands out snap.data() of a snapshot that holds none.
SnapDataUnguarded(s) == IF s.exists THEN s.data ELSE Empty

\* snap.exists() ? snap.data() : null
DateAvailability(s) == IF s.exists THEN s.data ELSE Null

\* getDateAvailability(date)
GetDateAvailability(p, date) ==
  /\ Ready(p)
  /\ LET o == [name |-> "getDateAvailability", date |-> date] IN
     \/ Returns(p, o, Ok(DateAvailability(GetDoc(cal, date))), <<>>,
                <<"getDoc">>, GetDoc(cal, date), 0, Empty, NoSnap)
     \/ \E e \in StoreErrors :
          Returns(p, o, Err(Rethrow(e)), <<e>>, <<"getDoc">>, NoSnap, 0,
                  Empty, NoSnap)
  /\ UNCHANGED <<cal, bookings, clock, locals, ui>>

\* if (docSnap.exists()) return docSnap.data(); return null;
CalendarDoc(s) == IF s.exists THEN s.data ELSE Null

\* getCalendar(date)
GetCalendar(p, date) ==
  /\ Ready(p)
  /\ LET o == [name |-> "getCalendar", date |-> date] IN
     \/ Returns(p, o, Ok(CalendarDoc(GetDoc(cal, date))), <<>>,
                <<"getDoc">>, GetDoc(cal, date), 0, Empty, NoSnap)
     \/ \E e \in StoreErrors :
          Returns(p, o, Err(Rethrow(e)), <<e>>, <<"getDoc">>, NoSnap, 0,
                  Empty, NoSnap)
  /\ UNCHANGED <<cal, bookings, clock, locals, ui>>

\* The calendar after the setDoc of updateCalendar(date, updates).
CalendarUpdated(coll, date, updates, now) ==
  SetDocMerge(coll, date, Merge(updates, [updatedAt |-> now]))

\* updateCalendar(date, updates)
UpdateCalendar(p, date, updates) ==
  /\ Ready(p)
  /\ LET o == [name |-> "updateCalendar", date |-> date, updates |-> updates] IN
     \/ /\ clock <= MaxClock
        /\ cal' = CalendarUpdated(cal, date, updates, clock)
        /\ clock' = clock + 1
        /\ Returns(p, o, Ok(Void), <<>>, <<"setDoc">>, NoSnap, 0,
                   Put(Empty, date, clock), GetDoc(cal, date))
     \/ \E e \in StoreErrors :
        /\ Returns(p, o, Err(Rethrow(e)), <<e>>, <<"setDoc">>, NoSnap, 0,
                   Empty, NoSnap)
        /\ UNCHANGED <<cal, clock>>
  /\ UNCHANGED <<bookings, locals, ui>>

\* A value of type boolean | undefined.
Undefined == "undefined"

Boolean(b) == IF b THEN "true" ELSE "false"

\* The flag f of an object is present and set.
Truthy(obj, f) == f \in DOMAIN obj /\ obj[f]

\* calendarDoc.slots?.some(slot => slot.available) ?? true
SomeSlotAvailable(calendarDoc) ==
  IF "slots" \notin DOMAIN calendarDoc THEN TRUE
  ELSE \E i \in DOMAIN calendarDoc.slots :
         Truthy(calendarDoc.slots[i], "available")

\* isAvailable(calendarDoc): a && b is a when a is falsy, and a field the
\* document does not have is undefined.
IsAvailable(calendarDoc) ==
  IF calendarDoc = Null THEN Boolean(TRUE)
  ELSE IF "available" \notin DOMAIN calendarDoc THEN Undefined
  ELSE Boolean(calendarDoc.available /\ SomeSlotAvailable(calendarDoc))

\* The documents of a collection in the order of their keys.
RECURSIVE InOrder(_, _)
InOrder(coll, ids) ==
  IF ids = {} THEN <<>>
  ELSE LET m == CHOOSE k \in ids : \A j \in ids : k <= j
       IN <<coll[m]>> \o InOrder(coll, ids \ {m})

\* Variant: a query whose upper end is open.
RangeQueryEndOpen(coll, startDate, endDate) ==
  InOrder(coll, { k \in DOMAIN coll :
                    /\ "date" \in DOMAIN coll[k]
                    /\ coll[k].date >= startDate
                    /\ coll[k].date < endDate })

\* query(calendarRef, where('date','>=',startDate), where('date','<=',endDate))
RangeQuery(coll, startDate, endDate) ==
  InOrder(coll, { k \in DOMAIN coll :
                    /\ "date" \in DOMAIN coll[k]
                    /\ coll[k].date >= startDate
                    /\ coll[k].date <= endDate })

\* getAvailabilityRange(startDate, endDate)
GetAvailabilityRange(p, startDate, endDate) ==
  /\ Ready(p)
  /\ LET o == [name |-> "getAvailabilityRange", startDate |-> startDate,
               endDate |-> endDate] IN
     \/ Returns(p, o, Ok(RangeQuery(cal, startDate, endDate)), <<>>,
                <<"getDocs">>, NoSnap, 0, Empty, NoSnap)
     \/ \E e \in StoreErrors :
          Returns(p, o, Err(Rethrow(e)), <<e>>, <<"getDocs">>, NoSnap, 0,
                  Empty, NoSnap)
  /\ UNCHANGED <<cal, bookings, clock, locals, ui>>

\* ------------------------------------------------------------ time slots
BookedSlot(time, clientEmail) ==
  [time |-> time, isAvailable |-> FALSE, bookedBy |-> clientEmail]

\* data.slots || []
SlotsOf(data) == IF "slots" \in DOMAIN data THEN data.slots ELSE <<>>

\* slots.find((s) => s.time === time)
HasTime(slots, time) == \E i \in DOMAIN slots : slots[i].time = time

\* Variant: the map without the conditional push.
UpdatedSlotsNoPush(slots, time, clientEmail) ==
  [i \in DOMAIN slots |->
     IF slots[i].time = time
     THEN Merge(slots[i], [isAvailable |-> FALSE, bookedBy |-> clientEmail])
     ELSE slots[i]]

\* Variant: a map that leaves a slot that is already booked to its holder.
UpdatedSlotsKeepBooked(slots, time, clientEmail) ==
  LET mapped == [i \in DOMAIN slots |->
                   IF slots[i].time = time /\ slots[i].isAvailable
                   THEN Merge(slots[i], [isAvailable |-> FALSE,
                                         bookedBy |-> clientEmail])
                   ELSE slots[i]]
  IN IF HasTime(slots, time) THEN mapped
     ELSE Append(mapped, BookedSlot(time, clientEmail))

\* Variant: the map followed by a push that is not conditional.
UpdatedSlotsAlwaysPush(slots, time, clientEmail) ==
  Append([i \in DOMAIN slots |->
            IF slots[i].time = time
            THEN Merge(slots[i], [isAvailable |-> FALSE,
                                  bookedBy |-> clientEmail])
            ELSE slots[i]],
         BookedSlot(time, clientEmail))

\* slots.map(...) followed by the conditional push.
UpdatedSlots(slots, time, clientEmail) ==
  LET mapped == [i \in DOMAIN slots |->
                   IF slots[i].time = time
                   THEN Merge(slots[i], [isAvailable |-> FALSE,
                                         bookedBy |-> clientEmail])
                   ELSE slots[i]]
  IN IF HasTime(slots, time) THEN mapped
     ELSE Append(mapped, BookedSlot(time, clientEmail))

\* Variant: a new date entry whose day-level flag is cleared with the slot's.
NewDateEntryDayTaken(date, time, clientEmail, now) ==
  [date |-> date, isAvailable |-> FALSE,
   slots |-> <<BookedSlot(time, clientEmail)>>, updatedAt |-> now]

\* The document bookTimeSlot creates for a date that has none.
NewDateEntry(date, time, clientEmail, now) ==
  [date |-> date, isAvailable |-> TRUE,
   slots |-> <<BookedSlot(time, clientEmail)>>, updatedAt |-> now]

\* The arguments of the bookTimeSlot a caller is inside of: its own, or the
\* ones createBooking passes.
BtsArgs(o) ==
  IF o.name = "createBooking"
  THEN [date |-> o.booking.date, time |-> o.booking.time,
        clientEmail |-> o.booking.clientEmail]
  ELSE [date |-> o.date, time |-> o.time, clientEmail |-> o.clientEmail]

BookingFailed == "Booking failed. Please try again."

\* The catch block of createBooking.
CreateBookingError(e) == BookingFailed

\* What the caller gets when a store call inside bookTimeSlot rejects with
\* e: bookTimeSlot has no catch, createBooking has one.
Thrown(o, e) == IF o.name = "createBooking" THEN CreateBookingError(e) ELSE e

\* Variant: a catch block that logs the error and returns.
RejectedSwallowed(o, e) == Ok(Void)

\* How a call ends when a store call of createBooking or of bookTimeSlot
\* rejects with e.
Rejected(o, e) == Err(Thrown(o, e))

\* What the caller gets once bookTimeSlot has returned.
Returned(o, id) == IF o.name = "createBooking" THEN id ELSE Void

\* const snap = await getDoc(dateRef), for the call o of caller p that has
\* issued the store calls cs and holds the booking reference id.
AwaitGetDoc(p, o, cs, id) ==
  \/ /\ snap' = [snap EXCEPT ![p] = GetDoc(cal, BtsArgs(o).date)]
     /\ calls' = [calls EXCEPT ![p] = Append(cs, "getDoc")]
     /\ pc' = [pc EXCEPT ![p] = "write"]
     /\ op' = [op EXCEPT ![p] = o]
     /\ Suspends
     /\ UNCHANGED <<docRef, settled, raised, pend, stamp>>
  \/ \E e \in StoreErrors :
     /\ Returns(p, o, Rejected(o, e), <<e>>, Append(cs, "getDoc"), NoSnap,
                id, Empty, NoSnap)
     /\ Ends(p)

\* bookTimeSlot(date, time, clientEmail), up to the await of its getDoc.
BookTimeSlot(p, date, time, clientEmail) ==
  /\ Ready(p)
  /\ AwaitGetDoc(p, [name |-> "bookTimeSlot", date |-> date, time |-> time,
                     clientEmail |-> clientEmail], <<>>, 0)
  /\ UNCHANGED <<cal, bookings, clock, ui>>

\* createBooking, from the return of its addDoc to the await of the getDoc
\* of the bookTimeSlot it calls.
BtsGetDoc(p) ==
  /\ Running
  /\ pc[p] = "getDoc"
  /\ AwaitGetDoc(p, op[p], calls[p], docRef[p])
  /\ UNCHANGED <<cal, bookings, clock, ui>>

\* The store call bookTimeSlot writes with, chosen by snap.exists().
BtsWriteCall(s) == IF s.exists THEN "updateDoc" ELSE "setDoc"

\* Variant: a write computed from the document as the store holds it, as a
\* transaction would.
BtsWrittenFromStore(coll, s, a, now) ==
  IF a.date \in DOMAIN coll
  THEN UpdateDoc(coll, a.date,
         [slots |-> UpdatedSlots(SlotsOf(coll[a.date]), a.time, a.clientEmail),
          updatedAt |-> now])
  ELSE SetDoc(coll, a.date, NewDateEntry(a.date, a.time, a.clientEmail, now))

\* The calendar after the write of bookTimeSlot.
BtsWritten(coll, s, a, now) ==
  IF s.exists
  THEN UpdateDoc(coll, a.date,
         [slots |-> UpdatedSlots(SlotsOf(s.data), a.time, a.clientEmail),
          updatedAt |-> now])
  ELSE SetDoc(coll, a.date, NewDateEntry(a.date, a.time, a.clientEmail, now))

\* Variant: a write conditional on the document being as the call read it.
BtsWriteIfUnchanged(coll, s, a) ==
  IF GetDoc(coll, a.date) # s THEN {"aborted"} ELSE {}

\* The errors the store must reject the write of bookTimeSlot with: the
\* write is not conditional on what the call read.
BtsWriteRejections(coll, s, a) ==
  IF s.exists THEN UpdateDocRejections(coll, a.date) ELSE {}

\* await setDoc(dateRef, {...}) or await updateDoc(dateRef, {...}); return.
BtsWrite(p) ==
  /\ Running
  /\ pc[p] = "write"
  /\ LET a == BtsArgs(op[p])
         cs == Append(calls[p], BtsWriteCall(snap[p])) IN
     \/ /\ clock <= MaxClock
        /\ BtsWriteRejections(cal, snap[p], a) = {}
        /\ cal' = BtsWritten(cal, snap[p], a, clock)
        /\ clock' = clock + 1
        /\ Returns(p, op[p], Ok(Returned(op[p], docRef[p])), raised[p], cs,
                   snap[p], docRef[p], Put(Empty, a.date, clock),
                   GetDoc(cal, a.date))
     \/ \E e \in StoreErrors \cup BtsWriteRejections(cal, snap[p], a) :
        /\ Returns(p, op[p], Rejected(op[p], e), Append(raised[p], e), cs,
                   snap[p], docRef[p], Empty, NoSnap)
        /\ UNCHANGED <<cal, clock>>
  /\ Ends(p)
  /\ UNCHANGED <<bookings, ui>>

\* ------------------------------------------------------------ bookings
\* booking.clientMessage || ''
MessageOrDefault(booking) ==
  IF "clientMessage" \in DOMAIN booking THEN booking.clientMessage ELSE ""

\* The record createBooking hands to addDoc.
CleanBooking(booking, now) ==
  [serviceId |-> booking.serviceId,
   serviceName |-> booking.serviceName,
   date |-> booking.date,
   time |-> booking.time,
   clientName |-> booking.clientName,
   clientEmail |-> booking.clientEmail,
   clientPhone |-> booking.clientPhone,
   clientMessage |-> MessageOrDefault(booking),
   status |-> booking.status,
   createdAt |-> now,
   updatedAt |-> now]

\* createBooking(booking): the call and its addDoc.
CreateBooking(p, booking) ==
  /\ Ready(p)
  /\ LET o == [name |-> "createBooking", booking |-> booking] IN
     \/ /\ clock <= MaxClock
        /\ Cardinality(DOMAIN bookings) < MaxBookings
        /\ bookings' = Put(bookings, NewId(bookings), CleanBooking(booking, clock))
        /\ clock' = clock + 1
        /\ op' = [op EXCEPT ![p] = o]
        /\ calls' = [calls EXCEPT ![p] = <<"addDoc">>]
        /\ docRef' = [docRef EXCEPT ![p] = NewId(bookings)]
        /\ pc' = [pc EXCEPT ![p] = "getDoc"]
        /\ Suspends
        /\ UNCHANGED <<snap, settled, raised, pend, stamp>>
     \/ \E e \in StoreErrors :
        /\ Returns(p, o, Rejected(o, e), <<e>>, <<"addDoc">>,
                   NoSnap, 0, Empty, NoSnap)
        /\ UNCHANGED <<bookings, clock, locals>>
  /\ UNCHANGED <<cal, ui>>

\* snapshot.docs.map((doc) => ({ id: doc.id, ...doc.data() }))
WithId(coll) ==
  InOrder([k \in DOMAIN coll |-> Merge([id |-> k], coll[k])], DOMAIN coll)

\* getAllBookings()
GetAllBookings(p) ==
  /\ Ready(p)
  /\ LET o == [name |-> "getAllBookings"] IN
     \/ Returns(p, o, Ok(WithId(bookings)), <<>>, <<"getDocs">>, NoSnap, 0,
                Empty, NoSnap)
     \/ \E e \in StoreErrors :
          Returns(p, o, Err(Rethrow(e)), <<e>>, <<"getDocs">>, NoSnap, 0,
                  Empty, NoSnap)
  /\ UNCHANGED <<cal, bookings, clock, locals, ui>>

\* Variant: a status write that replaces the record instead of updating it.
StatusWrittenOverwrites(coll, bookingId, status, now) ==
  SetDoc(coll, bookingId, [status |-> status, updatedAt |-> now])

\* The bookings after the updateDoc of updateBookingStatus.
StatusWritten(coll, bookingId, status, now) ==
  UpdateDoc(coll, bookingId, [status |-> status, updatedAt |-> now])

\* updateBookingStatus(bookingId, status)
UpdateBookingStatus(p, bookingId, status) ==
  /\ Ready(p)
  /\ LET o == [name |-> "updateBookingStatus", bookingId |-> bookingId,
               status |-> status] IN
     \/ /\ clock <= MaxClock
        /\ UpdateDocRejections(bookings, bookingId) = {}
        /\ bookings' = StatusWritten(bookings, bookingId, status, clock)
        /\ clock' = clock + 1
        /\ Returns(p, o, Ok(Void), <<>>, <<"updateDoc">>, NoSnap, 0, Empty,
                   GetDoc(bookings, bookingId))
     \/ \E e \in StoreErrors \cup UpdateDocRejections(bookings, bookingId) :
        /\ Returns(p, o, Err(Rethrow(e)), <<e>>, <<"updateDoc">>, NoSnap, 0,
                   Empty, NoSnap)
        /\ UNCHANGED <<bookings, clock>>
  /\ UNCHANGED <<cal, locals, ui>>

\* ------------------------------------------------------------ listeners
\* snapshot.docs.map(...) of the query a listener is registered with: the
\* whole result of the query, as the store holds it.
Snapshot(l) ==
  IF l = "availability"
  THEN RangeQuery(cal, subs[l].startDate, subs[l].endDate)
  ELSE WithId(bookings)

\* onSnapshot(q, next, error): the listener is registered and has not
\* been called.
Registered(startDate, endDate) ==
  [state |-> "on", startDate |-> startDate, endDate |-> endDate,
   seen |-> <<>>, n |-> 0]

\* subscribeToAvailability(startDate, endDate, callback)
SubscribeToAvailability(startDate, endDate) ==
  /\ subs["availability"].state = "none"
  /\ subs' = [subs EXCEPT !["availability"] = Registered(startDate, endDate)]
  /\ UNCHANGED <<cal, bookings, clock, locals, ret, form>>

\* subscribeToBookings(callback)
SubscribeToBookings ==
  /\ subs["bookings"].state = "none"
  /\ subs' = [subs EXCEPT !["bookings"] = Registered(0, 0)]
  /\ UNCHANGED <<cal, bookings, clock, locals, ret, form>>

\* The store has a result for the listener that it has not delivered: the
\* first one, or one that differs from the last.
Undelivered(l) ==
  /\ subs[l].state = "on"
  /\ subs[l].n = 0 \/ subs[l].seen # Snapshot(l)

\* Variant: a delivery that carries only the documents that changed.
DeliveredChanges(l) ==
  SelectSeq(Snapshot(l), LAMBDA d : \A i \in DOMAIN subs[l].seen :
                                      subs[l].seen[i] # d)

\* What the next callback of onSnapshot hands to callback(...).
Delivered(l) == Snapshot(l)

\* The next callback of onSnapshot runs: callback(availability) or
\* callback(bookings).
OnSnapshot(l) ==
  /\ Undelivered(l)
  /\ subs' = [subs EXCEPT ![l].seen = Delivered(l), ![l].n = @ + 1]
  /\ UNCHANGED <<cal, bookings, clock, locals, ret, form>>

\* The error callback of onSnapshot runs: it logs, and the store sends the
\* listener nothing more.
OnSnapshotError(l) ==
  /\ subs[l].state = "on"
  /\ subs' = [subs EXCEPT ![l].state = "failed"]
  /\ UNCHANGED <<cal, bookings, clock, locals, ret, form>>

\* The handle that subscribeTo... returned is invoked.
Unsubscribe(l) ==
  /\ subs[l].state \in {"on", "failed"}
  /\ subs' = [subs EXCEPT ![l].state = "closed"]
  /\ UNCHANGED <<cal, bookings, clock, locals, ret, form>>

\* ------------------------------------------------------------ the form
\* The inputs name, email and phone carry the attribute required: the
\* browser raises no submit event while one of them is empty.
RequiredInputs == {"name", "email", "phone"}

\* Variant: a form that switches the browser's validation off.
ConstraintsNotChecked(data) == TRUE

ConstraintsValid(data) == \A f \in RequiredInputs : data[f] # ""

\* !bookingData.service || !bookingData.date || !bookingData.time
BookingMissing(data) == data.service = "" \/ data.date = 0 \/ data.time = ""

\* The notices the form and the browser show.
FillOutThisField == "Please fill out this field."
MissingInformation == "Missing booking information"
CreatedSuccessfully == "Booking created successfully!"
SlotMayBeTaken == "Failed to create booking. Slot may be taken."

\* The payload handleSubmit hands to createBooking.
CleanBookingOf(data) ==
  [serviceId |-> data.service, serviceName |-> "Cut",
   date |-> data.date, time |-> data.time,
   clientName |-> data.name, clientEmail |-> data.email,
   clientPhone |-> data.phone, clientMessage |-> data.message,
   status |-> "pending"]

\* Variant: a submit button that is never disabled.
SubmitNeverDisabled(f) == FALSE

\* disabled={isSubmitting}
SubmitDisabled(f) == f.isSubmitting

\* The user chooses service, date and time and types the details.  What is
\* typed while a submission is in flight is not part of that submission.
Fill(p, data) ==
  /\ Running
  /\ ~form[p].isSubmitting
  /\ form[p].data # data
  /\ form' = [form EXCEPT ![p].data = data]
  /\ UNCHANGED <<cal, bookings, clock, locals, ret, subs>>

\* The user presses the submit button: the browser checks the required
\* inputs, and handleSubmit runs up to its call of createBooking.
Submit(p) ==
  /\ Running
  /\ ~SubmitDisabled(form[p])
  /\ form' = [form EXCEPT ![p] =
       IF ~ConstraintsValid(@.data)
       THEN [@ EXCEPT !.notice = FillOutThisField]
       ELSE IF BookingMissing(@.data)
       THEN [@ EXCEPT !.notice = MissingInformation]
       ELSE [@ EXCEPT !.isSubmitting = TRUE, !.inFlight = @ + 1]]
  /\ UNCHANGED <<cal, bookings, clock, locals, ret, subs>>

\* The createBooking that handleSubmit called: the call and its addDoc.
FormCreateBooking(p) ==
  /\ form[p].inFlight > 0
  /\ CreateBooking(p, CleanBookingOf(form[p].data))

\* Variant: a handler whose catch block leaves the slot status alone.
SlotStatusAfterKept(f, result) ==
  IF result.kind = "ok" THEN "available" ELSE f.slotStatus

\* setSlotStatus('available') after the await, setSlotStatus('taken') in
\* the catch block.
SlotStatusAfter(f, result) ==
  IF result.kind = "ok" THEN "available" ELSE "taken"

\* handleSubmit after await createBooking(...): the success path or the
\* catch block, then the finally block.
HandleSubmitResumes(p) ==
  /\ ~Running
  /\ ret.proc = p
  /\ ret.op.name = "createBooking"
  /\ form' = [form EXCEPT ![p] =
       [@ EXCEPT !.slotStatus = SlotStatusAfter(form[p], ret.result),
                 !.notice = IF ret.result.kind = "ok" THEN CreatedSuccessfully
                            ELSE SlotMayBeTaken,
                 !.onSubmit = IF ret.result.kind = "ok" THEN @ + 1 ELSE @,
                 !.isSubmitting = FALSE,
                 !.inFlight = @ - 1]]
  /\ ret' = NoReturn
  /\ UNCHANGED <<cal, bookings, clock, locals, subs>>

\* onBack: the user returns to the choice of date and time, and the form is
\* mounted anew.
GoBack(p) ==
  /\ Running
  /\ ~form[p].isSubmitting
  /\ form[p] # NewForm
  /\ form' = [form EXCEPT ![p] = NewForm]
  /\ UNCHANGED <<cal, bookings, clock, locals, ret, subs>>

\* ------------------------------------------------------------ behaviours
\* The booking flow: two clients book slots of the same day, over a day
\* document the administrator may have filled in.
SeedArgs == { [date |-> 1, isAvailable |-> TRUE, slots |-> TwiceTen] }

SlotCalls ==
  { <<"a@x.com", 1, "10:00">>, <<"b@x.com", 1, "10:00">>,
    <<"b@x.com", 2, "11:00">> }

BookingCalls ==
  { Payload(1, "10:00", "a@x.com", "pending"),
    Payload(1, "10:00", "b@x.com", "confirmed"),
    Merge(Payload(1, "11:00", "b@x.com", "cancelled"),
          [clientMessage |-> "hi"]) }

NextBooking ==
  \/ Resume
  \/ \E args \in SeedArgs : SetDateAvailability(Admin, args)
  \/ \E c \in SlotCalls : BookTimeSlot(c[1], c[2], c[3], c[1])
  \/ \E b \in BookingCalls : CreateBooking(b.clientEmail, b)
  \/ \E p \in Clients : BtsGetDoc(p)
  \/ \E p \in Clients : BtsWrite(p)

SpecBooking == Init /\ [][NextBooking]_vars

\* The availability flow: the administrator sets single days and batches of
\* days while a client books a slot and another session sets a day.
AvailabilityArgs ==
  { [date |-> 1, isAvailable |-> FALSE],
    [date |-> 1, isAvailable |-> TRUE,
     slots |-> <<FreeSlot("10:00"), FreeSlot("11:00")>>],
    [date |-> 2, isAvailable |-> TRUE, slots |-> TwiceTen] }

DateLists == { <<>>, <<1, 2>>, <<2, 1, 2>> }

NextAvailability ==
  \/ Resume
  \/ \E p \in {Admin, "b@x.com"}, args \in AvailabilityArgs :
       SetDateAvailability(p, args)
  \/ \E dates \in DateLists, a \in BOOLEAN :
       SetBatchAvailability(Admin, dates, a)
  \/ \E i \in pend[Admin] : BatchSettle(Admin, i)
  \/ BookTimeSlot("a@x.com", 1, "10:00", "a@x.com")
  \/ BtsWrite("a@x.com")

SpecAvailability == Init /\ [][NextAvailability]_vars

\* Every operation of the service, each with few arguments.
Next ==
  \/ Resume
  \/ SetDateAvailability(Admin, [date |-> 1, isAvailable |-> FALSE])
  \/ SetBatchAvailability(Admin, <<1, 2>>, TRUE)
  \/ \E i \in pend[Admin] : BatchSettle(Admin, i)
  \/ \E d \in Dates : GetDateAvailability("b@x.com", d)
  \/ \E d \in Dates : GetAvailabilityRange("b@x.com", d, 2)
  \/ BookTimeSlot("b@x.com", 1, "10:00", "b@x.com")
  \/ CreateBooking("a@x.com", Payload(1, "10:00", "a@x.com", "pending"))
  \/ \E p \in Clients : BtsGetDoc(p)
  \/ \E p \in Clients : BtsWrite(p)
  \/ GetAllBookings(Admin)
  \/ \E id \in 1..MaxBookings : UpdateBookingStatus(Admin, id, "cancelled")

Spec == Init /\ [][Next]_vars

\* The administration of bookings: clients create bookings and the
\* administrator sets the status of the records, any status at any time.
StatusBookings ==
  { Payload(1, "10:00", "a@x.com", "pending"),
    Payload(1, "11:00", "b@x.com", "cancelled") }

NextStatus ==
  \/ Resume
  \/ \E b \in StatusBookings : CreateBooking(b.clientEmail, b)
  \/ \E p \in Clients : BtsGetDoc(p)
  \/ \E p \in Clients : BtsWrite(p)
  \/ \E id \in 1..MaxBookings, s \in Statuses :
       UpdateBookingStatus(Admin, id, s)

SpecStatus == Init /\ [][NextStatus]_vars

\* Reading the calendar: a client reads single dates and ranges of dates
\* while the administrator and another client write.
ReadDates == 1..3

CalendarWrites ==
  { [date |-> 1, isAvailable |-> TRUE, slots |-> <<FreeSlot("10:00")>>],
    [date |-> 3, isAvailable |-> FALSE] }

\* The ranges a page listens to, and the ranges a client fetches: between
\* two dates, of one date, and from a date to an earlier one.
Ranges == { <<2, 3>>, <<3, 1>> }

ReadRanges == Ranges \cup { <<1, 2>>, <<2, 2>> }

NextReading ==
  \/ Resume
  \/ \E args \in CalendarWrites : SetDateAvailability(Admin, args)
  \/ UpdateCalendar(Admin, 2, [available |-> TRUE])
  \/ BookTimeSlot("a@x.com", 2, "10:00", "a@x.com")
  \/ BtsWrite("a@x.com")
  \/ \E d \in ReadDates : GetDateAvailability("b@x.com", d)
  \/ \E d \in ReadDates : GetCalendar("b@x.com", d)
  \/ \E q \in ReadRanges : GetAvailabilityRange("b@x.com", q[1], q[2])
  \/ \E q \in Ranges : SubscribeToAvailability(q[1], q[2])
  \/ OnSnapshot("availability")

SpecReading == Init /\ [][NextReading]_vars

\* Listening: pages listen to the bookings and to a range of the calendar
\* while a client creates bookings, each of which writes both collections.
\* The store delivers what it has for a registered listener sooner or later.
NextListening ==
  \/ Resume
  \/ CreateBooking("a@x.com", Payload(1, "10:00", "a@x.com", "pending"))
  \/ BtsGetDoc("a@x.com")
  \/ BtsWrite("a@x.com")
  \/ SubscribeToAvailability(1, 2)
  \/ SubscribeToBookings
  \/ \E l \in Listeners : OnSnapshot(l)
  \/ \E l \in Listeners : OnSnapshotError(l)
  \/ \E l \in Listeners : Unsubscribe(l)

SpecListening ==
  /\ Init
  /\ [][NextListening]_vars
  /\ \A l \in Listeners : WF_vars(OnSnapshot(l))

\* The submission flow: a client fills the form in, completely or with one
\* item missing, and submits it, while the administrator opens the day.
Details ==
  [service |-> "svc1", date |-> 1, time |-> "10:00",
   name |-> "A", email |-> "a@x.com", phone |-> "+1", message |-> ""]

FormInputs ==
  { Details,
    [Details EXCEPT !.service = ""], [Details EXCEPT !.date = 0],
    [Details EXCEPT !.time = ""], [Details EXCEPT !.name = ""],
    [Details EXCEPT !.email = ""], [Details EXCEPT !.phone = ""],
    [Details EXCEPT !.time = "11:00", !.message = "hi"] }

NextForm ==
  \/ \E args \in SeedArgs : SetDateAvailability(Admin, args)
  \/ Resume /\ ret.proc = Admin
  \/ \E data \in FormInputs : Fill("a@x.com", data)
  \/ Submit("a@x.com")
  \/ FormCreateBooking("a@x.com")
  \/ BtsGetDoc("a@x.com")
  \/ BtsWrite("a@x.com")
  \/ HandleSubmitResumes("a@x.com")
  \/ GoBack("a@x.com")

SpecForm == Init /\ [][NextForm]_vars

\* ------------------------------------------------------------ properties
\* A call has just returned to its caller.
Back == ret.proc # "none"

BackFrom(names) == Back /\ ret.op.name \in names

BackOk(names) == BackFrom(names) /\ ret.result.kind = "ok"

\* The positions of the entries of a slots list that have the given time.
EntriesAt(slots, time) == { i \in DOMAIN slots : slots[i].time = time }

BookedBy(slot) == IF "bookedBy" \in DOMAIN slot THEN slot.bookedBy ELSE "nobody"

\* The entry is marked unavailable and bound to the client.
BoundTo(slot, clientEmail) ==
  ~slot.isAvailable /\ BookedBy(slot) = clientEmail

\* The slots of a snapshot; none when the document does not exist.
SnapSlots(s) == IF s.exists THEN SlotsOf(s.data) ELSE <<>>

\* A snapshot shows the time bound to a client other than the given one.
TakenByOther(s, time, clientEmail) ==
  \E i \in EntriesAt(SnapSlots(s), time) :
    /\ ~SnapSlots(s)[i].isAvailable
    /\ BookedBy(SnapSlots(s)[i]) \notin {clientEmail, "nobody"}

\* The step is the write of a setDateAvailability(d, isAvailable) that was
\* given no slots, called directly or by setBatchAvailability.
WritesDayWithoutSlots(d) ==
  \/ /\ ret'.proc # "none"
     /\ ret'.op.name = "setDateAvailability"
     /\ ret'.result.kind = "ok"
     /\ "slots" \notin DOMAIN ret'.op.args
     /\ ret'.op.args.date = d
  \/ \E p \in Procs :
       /\ pc[p] = "batch"
       /\ clock' # clock
       /\ \E i \in pend[p] \ pend'[p] : op[p].dates[i] = d

\* C1: a setDateAvailability that is given no slots, and each write of a
\* setBatchAvailability, leaves the non-empty slots list of the date as it
\* was and changes only isAvailable and updatedAt.
MergeKeepsSlots ==
  [][ \A d \in DOMAIN cal :
        (WritesDayWithoutSlots(d) /\ SlotsOf(cal[d]) # <<>>)
          => /\ SlotsOf(cal'[d]) = SlotsOf(cal[d])
             /\ cal'[d].date = cal[d].date ]_vars

\* C2: every booking record that createBooking wrote, and that nothing has
\* updated since, has status pending, whatever status the caller passed.
CreateBookingForcesPending ==
  \A id \in DOMAIN bookings :
    bookings[id].updatedAt = bookings[id].createdAt
      => bookings[id].status = "pending"

\* C3: when createBooking returns, it returns the non-empty identifier of the
\* record it added to bookings, and the calendar document of the booking's
\* date holds a slot with the booking's time, unavailable, bound to the
\* booking's client.
CreateBookingPostcondition ==
  BackOk({"createBooking"}) =>
    LET b == ret.op.booking
        id == ret.result.value IN
    /\ id # 0
    /\ id = ret.docRef
    /\ id \in DOMAIN bookings
    /\ bookings[id].date = b.date
    /\ bookings[id].time = b.time
    /\ bookings[id].clientEmail = b.clientEmail
    /\ b.date \in DOMAIN cal
    /\ \E i \in EntriesAt(SlotsOf(cal[b.date]), b.time) :
         BoundTo(cal[b.date].slots[i], b.clientEmail)

\* createBooking has returned for a date whose document already held a slot
\* of the booking's time.
CreateBookingOverExistingSlot ==
  /\ BackOk({"createBooking"})
  /\ EntriesAt(SnapSlots(ret.snap), ret.op.booking.time) # {}

\* The snapshot a suspended bookTimeSlot holds is no longer what the store
\* holds for the date.
Stale(p) == snap[p] # GetDoc(cal, BtsArgs(op[p]).date)

\* C4: the write of bookTimeSlot is never refused because another call wrote
\* the date after this call read it; when it goes through over a binding of
\* the same time to another client that the call did not see, the call
\* returns without error, every entry of that time is bound to this call's
\* client alone, and the booking record of a createBooking is in bookings.
DoubleBookingIsSilent ==
  /\ \A p \in Clients :
       (Running /\ pc[p] = "write" /\ clock <= MaxClock /\ Stale(p))
         => ENABLED (BtsWrite(p) /\ ret'.result.kind = "ok")
  /\ (/\ BackOk({"bookTimeSlot", "createBooking"})
      /\ TakenByOther(ret.replaced, BtsArgs(ret.op).time, ret.proc)
      /\ ~TakenByOther(ret.snap, BtsArgs(ret.op).time, ret.proc))
     => LET a == BtsArgs(ret.op) IN
        /\ a.date \in DOMAIN cal
        /\ EntriesAt(SlotsOf(cal[a.date]), a.time) # {}
        /\ \A i \in EntriesAt(SlotsOf(cal[a.date]), a.time) :
             BoundTo(cal[a.date].slots[i], a.clientEmail)
        /\ ret.op.name = "createBooking" => ret.docRef \in DOMAIN bookings

\* Two createBooking calls for the same date and time by different clients
\* have both returned without error, each having read the date before the
\* other wrote it: two booking records, one binding.
DoubleBooked ==
  /\ BackOk({"createBooking"})
  /\ TakenByOther(ret.replaced, ret.op.booking.time, ret.proc)
  /\ ~TakenByOther(ret.snap, ret.op.booking.time, ret.proc)
  /\ \A p \in Clients : pc[p] = "ready"
  /\ \E i, j \in DOMAIN bookings :
       /\ bookings[i].clientEmail # bookings[j].clientEmail
       /\ bookings[i].date = bookings[j].date
       /\ bookings[i].time = bookings[j].time
       /\ bookings[j].clientEmail = ret.proc
       /\ bookings[j].date = ret.op.booking.date
       /\ bookings[j].time = ret.op.booking.time

\* A bookTimeSlot for a time has returned that ran after an earlier
\* bookTimeSlot had bound that time to another client, nothing having written
\* the date between its read and its write.
SecondBookingReturned ==
  /\ BackOk({"bookTimeSlot", "createBooking"})
  /\ ret.snap = ret.replaced
  /\ TakenByOther(ret.snap, BtsArgs(ret.op).time, ret.proc)

\* C5 as stated: after the second of two bookTimeSlot calls for the same date
\* and time, the document has exactly one entry of that time, unavailable and
\* bound to the second client.
LastWriteWinsOneEntry ==
  SecondBookingReturned =>
    LET a == BtsArgs(ret.op)
        at == EntriesAt(SlotsOf(cal[a.date]), a.time) IN
    /\ Cardinality(at) = 1
    /\ \A i \in at : BoundTo(cal[a.date].slots[i], a.clientEmail)

\* C5 as amended: after the second call every entry of that time is
\* unavailable and bound to the second client, none is left bound to the
\* first, and the call added no entry: the entries of that time are the ones
\* the first call left, exactly one when the first call left one.
LastWriteWins ==
  SecondBookingReturned =>
    LET a == BtsArgs(ret.op)
        at == EntriesAt(SlotsOf(cal[a.date]), a.time) IN
    /\ at # {}
    /\ at = EntriesAt(SnapSlots(ret.snap), a.time)
    /\ Len(SlotsOf(cal[a.date])) = Len(SnapSlots(ret.snap))
    /\ \A i \in at : BoundTo(cal[a.date].slots[i], a.clientEmail)

\* The second call has returned over a document with one entry of the time.
SecondBookingOverOneEntry ==
  /\ SecondBookingReturned
  /\ Cardinality(EntriesAt(SnapSlots(ret.snap), BtsArgs(ret.op).time)) = 1

\* C6: the step in which a bookTimeSlot that read no document for its date
\* writes leaves one calendar document under that date, holding exactly one
\* slot, of the given time, unavailable and bound to the given client; it
\* changes no other calendar document and no booking record.
AbsentDateCreatesOneSlot ==
  [][ (/\ ret'.proc # "none"
       /\ ret'.op.name \in {"bookTimeSlot", "createBooking"}
       /\ ret'.result.kind = "ok"
       /\ ~ret'.snap.exists)
      => LET a == BtsArgs(ret'.op) IN
         /\ DOMAIN cal' = DOMAIN cal \cup {a.date}
         /\ \A d \in DOMAIN cal \ {a.date} : cal'[d] = cal[d]
         /\ cal'[a.date].date = a.date
         /\ cal'[a.date].isAvailable
         /\ Len(cal'[a.date].slots) = 1
         /\ cal'[a.date].slots[1].time = a.time
         /\ BoundTo(cal'[a.date].slots[1], a.clientEmail)
         /\ bookings' = bookings ]_vars

\* A bookTimeSlot has created the document of a date while another date's
\* document and a booking record were in the store.
AbsentDateBooked ==
  /\ BackOk({"bookTimeSlot"})
  /\ ~ret.snap.exists
  /\ ~ret.replaced.exists
  /\ Cardinality(DOMAIN cal) = 2
  /\ DOMAIN bookings # {}

\* C7: when a store call of the slot-booking step of createBooking is
\* rejected after the booking record was written, createBooking fails to its
\* caller and ends; the step changes neither collection, the record is in
\* bookings, and the call has written nothing to the calendar.
OrphanedBooking ==
  [][ (/\ ret'.proc # "none"
       /\ ret'.op.name = "createBooking"
       /\ ret'.docRef # 0
       /\ ret'.raised # <<>>)
      => /\ ret'.result.kind = "err"
         /\ pc'[ret'.proc] = "ready"
         /\ cal' = cal
         /\ bookings' = bookings
         /\ ret'.stamp = Empty
         /\ ret'.docRef \in DOMAIN bookings'
         /\ bookings'[ret'.docRef].clientEmail = ret'.op.booking.clientEmail
         /\ bookings'[ret'.docRef].date = ret'.op.booking.date
         /\ bookings'[ret'.docRef].time = ret'.op.booking.time ]_vars

\* createBooking has failed at the write of its slot, leaving a booking
\* record whose slot the calendar does not hold.
OrphanLeft ==
  /\ BackFrom({"createBooking"})
  /\ ret.result.kind = "err"
  /\ Len(ret.calls) = 3
  /\ ret.docRef \in DOMAIN bookings
  /\ LET b == ret.op.booking IN
     \/ b.date \notin DOMAIN cal
     \/ \A i \in EntriesAt(SlotsOf(cal[b.date]), b.time) :
          ~BoundTo(cal[b.date].slots[i], b.clientEmail)

NoRepeat(cs) == \A i, j \in DOMAIN cs : cs[i] = cs[j] => i = j

\* No store call of the call that returned was issued a second time.
IssuedOnce ==
  IF ret.op.name = "setBatchAvailability"
  THEN Len(ret.calls) = Len(ret.op.dates)
  ELSE NoRepeat(ret.calls)

\* C8 as stated: an operation in which a store call is rejected with an
\* error fails to its caller with that same error, every store call having
\* been issued once.
StoreErrorReraisedUnchanged ==
  Back =>
    /\ (ret.raised # <<>>) <=> (ret.result.kind = "err")
    /\ ret.result.kind = "err"
         => /\ Len(ret.raised) = 1
            /\ ret.result.error = ret.raised[1]
            /\ IssuedOnce

\* C8 as amended: the same, except that createBooking fails with its own
\* error, "Booking failed. Please try again.", whatever the store's error.
StoreErrorReraised ==
  Back =>
    /\ (ret.raised # <<>>) <=> (ret.result.kind = "err")
    /\ ret.result.kind = "err"
         => /\ Len(ret.raised) = 1
            /\ IF ret.op.name = "createBooking"
               THEN ret.result.error = BookingFailed
               ELSE ret.result.error = ret.raised[1]
            /\ IssuedOnce

\* createBooking has failed with its own error after the store rejected the
\* write of the slot with an error of the store.
CreateBookingRejected ==
  /\ BackFrom({"createBooking"})
  /\ ret.result = Err(BookingFailed)
  /\ Len(ret.calls) = 3
  /\ ret.raised[1] \in StoreErrors

\* C9: an updateBookingStatus for an identifier that names no booking record
\* fails, and its step changes neither the bookings nor the calendar.
UpdateOfMissingBookingFails ==
  [][ (/\ ret'.proc # "none"
       /\ ret'.op.name = "updateBookingStatus"
       /\ ret'.op.bookingId \notin DOMAIN bookings)
      => /\ ret'.result.kind = "err"
         /\ ret'.result.error \in StoreErrors \cup {NotFound}
         /\ bookings' = bookings
         /\ cal' = cal ]_vars

\* updateBookingStatus has failed for an identifier that names no record,
\* the store holding another record.
MissingBookingUpdated ==
  /\ BackFrom({"updateBookingStatus"})
  /\ ret.op.bookingId \notin DOMAIN bookings
  /\ DOMAIN bookings # {}
  /\ ret.result = Err(NotFound)

\* The writes a call committed are in the calendar: each date it wrote has
\* a document, which holds the given isAvailable unless a later write
\* replaced it.
Committed(st, isAvailable) ==
  \A d \in DOMAIN st :
    /\ d \in DOMAIN cal
    /\ cal[d].updatedAt >= st[d]
    /\ cal[d].updatedAt = st[d] => cal[d].isAvailable = isAvailable

Range(f) == { f[i] : i \in DOMAIN f }

\* C10: setBatchAvailability issues one write per date of the list; the call
\* fails with the error of the first write that is rejected; the writes the
\* store accepted, before or after that, are committed; when no write is
\* rejected the call returns having written every date of the list.
BatchIsNotAtomic ==
  /\ \A p \in Procs :
       pc[p] = "batch" =>
         /\ Len(calls[p]) = Len(op[p].dates)
         /\ pend[p] # {}
         /\ pend[p] \subseteq DOMAIN op[p].dates
         /\ settled[p].kind # "ok"
         /\ (settled[p].kind = "none") <=> (raised[p] = <<>>)
         /\ settled[p].kind = "err" => settled[p].error = raised[p][1]
         /\ Committed(stamp[p], op[p].isAvailable)
  /\ BackFrom({"setBatchAvailability"}) =>
       /\ ret.result.kind \in {"ok", "err"}
       /\ ret.result.kind = "err"
            => Len(ret.raised) = 1 /\ ret.result.error = ret.raised[1]
       /\ ret.result.kind = "ok"
            => ret.raised = <<>> /\ DOMAIN ret.stamp = Range(ret.op.dates)
       /\ Committed(ret.stamp, ret.op.isAvailable)

\* A batch has failed to its caller, one of its writes is committed and
\* another is still in flight.
BatchPartlyCommitted ==
  /\ pc[Admin] = "batch"
  /\ settled[Admin].kind = "err"
  /\ DOMAIN stamp[Admin] # {}
  /\ \A d \in DOMAIN stamp[Admin] :
       cal[d].updatedAt = stamp[Admin][d]

\* The fields of a booking record that updateBookingStatus may write.
StatusFields == {"status", "updatedAt"}

\* C11: updateBookingStatus on an existing record is refused for no current
\* and no target status, and fails only when the store rejects the write;
\* its step puts the target status into that record and changes nothing else
\* but its updatedAt: the record's other fields, every other record and
\* every calendar document are as they were, so the slot of a cancelled
\* booking stays bound.
StatusUpdateFrame ==
  /\ [](\A id \in DOMAIN bookings, s \in Statuses :
          (Ready(Admin) /\ clock <= MaxClock)
            => ENABLED (UpdateBookingStatus(Admin, id, s)
                          /\ ret'.result.kind = "ok"))
  /\ [][ (/\ ret'.proc # "none"
          /\ ret'.op.name = "updateBookingStatus"
          /\ ret'.op.bookingId \in DOMAIN bookings)
         => LET id == ret'.op.bookingId IN
            /\ cal' = cal
            /\ DOMAIN bookings' = DOMAIN bookings
            /\ \A k \in DOMAIN bookings \ {id} : bookings'[k] = bookings[k]
            /\ DOMAIN bookings'[id] = DOMAIN bookings[id]
            /\ \A f \in DOMAIN bookings[id] \ StatusFields :
                 bookings'[id][f] = bookings[id][f]
            /\ (ret'.result.kind = "ok") <=> (ret'.raised = <<>>)
            /\ IF ret'.result.kind = "ok"
               THEN /\ bookings'[id].status = ret'.op.status
                    /\ bookings'[id].updatedAt = clock
               ELSE bookings' = bookings ]_vars

\* A confirmed booking has been cancelled, and the calendar still holds its
\* slot bound to its client.
StatusChanged ==
  /\ BackOk({"updateBookingStatus"})
  /\ ret.replaced.exists
  /\ LET id == ret.op.bookingId
         was == ret.replaced.data
         b == bookings[id] IN
     /\ ret.op.status = "cancelled"
     /\ b.status = "cancelled"
     /\ was.status = "confirmed"
     /\ b.date \in DOMAIN cal
     /\ \E i \in EntriesAt(SlotsOf(cal[b.date]), b.time) :
          BoundTo(cal[b.date].slots[i], b.clientEmail)

\* C12: a getDateAvailability or getCalendar for a date that has no calendar
\* document returns null, the availability predicate is true of what it
\* returned, and its step creates no document and changes none.
AbsentDateIsAvailable ==
  [][ (/\ ret'.proc # "none"
       /\ ret'.op.name \in {"getDateAvailability", "getCalendar"}
       /\ ret'.op.date \notin DOMAIN cal)
      => /\ cal' = cal
         /\ bookings' = bookings
         /\ ret'.result.kind = "ok"
              => /\ ret'.result.value = Null
                 /\ IsAvailable(ret'.result.value) = Boolean(TRUE) ]_vars

\* getCalendar has returned null for a date without a document while the
\* calendar holds documents of other dates.
AbsentDateRead ==
  /\ BackOk({"getCalendar"})
  /\ ret.op.date \notin DOMAIN cal
  /\ ret.result.value = Null
  /\ DOMAIN cal # {}

\* The documents of a collection that have a date, between two dates.
InRange(coll, startDate, endDate) ==
  { k \in DOMAIN coll : /\ "date" \in DOMAIN coll[k]
                        /\ startDate <= coll[k].date
                        /\ coll[k].date <= endDate }

\* A sequence holds exactly the documents of the collection whose date is
\* between the two dates, both included, each once, by ascending date.
ExactlyRange(seq, coll, startDate, endDate) ==
  /\ \A i \in DOMAIN seq :
       \E k \in InRange(coll, startDate, endDate) : seq[i] = coll[k]
  /\ \A k \in InRange(coll, startDate, endDate) :
       \E i \in DOMAIN seq : seq[i] = coll[k]
  /\ \A i, j \in DOMAIN seq : i < j => seq[i].date < seq[j].date

\* C13: what getAvailabilityRange(start, end) returns, and what every
\* callback of a listener of subscribeToAvailability(start, end) is handed,
\* is exactly the calendar documents whose date is between start and end,
\* both included, by ascending date; the date of a document that has one is
\* the key it is stored under.
InclusiveRange ==
  [][ /\ (/\ ret'.proc # "none"
          /\ ret'.op.name = "getAvailabilityRange"
          /\ ret'.result.kind = "ok")
         => ExactlyRange(ret'.result.value, cal,
                         ret'.op.startDate, ret'.op.endDate)
      /\ subs'["availability"].n # subs["availability"].n
         => ExactlyRange(subs'["availability"].seen, cal,
                         subs["availability"].startDate,
                         subs["availability"].endDate)
      /\ \A k \in DOMAIN cal' :
           "date" \in DOMAIN cal'[k] => cal'[k].date = k ]_vars

\* A listener of the range from date 2 to date 3 has been handed the
\* documents of both dates while the calendar holds a document of date 1.
BothEndsDelivered ==
  /\ subs["availability"].startDate = 2
  /\ subs["availability"].endDate = 3
  /\ Len(subs["availability"].seen) = 2
  /\ subs["availability"].seen = RangeQuery(cal, 2, 3)
  /\ 1 \in DOMAIN cal

\* The identifiers of the bookings a listener was last handed.
SeenIds(l) == { subs[l].seen[i].id : i \in DOMAIN subs[l].seen }

\* C14: while a listener is registered, whatever the store holds for it and
\* has not delivered is eventually delivered by a callback, unless the
\* listener ends first; every callback is handed the whole current result
\* of the listener's query; a bookings listener registered when
\* createBooking returns is eventually handed a set that holds the new
\* booking, unless it ends first; and a listener whose unsubscribe handle
\* has been invoked is never called again.
ListenerLifecycle ==
  /\ \A l \in Listeners : Undelivered(l) ~> ~Undelivered(l)
  /\ \A id \in 1..MaxBookings :
       (BackOk({"createBooking"}) /\ ret.result.value = id
          /\ subs["bookings"].state = "on")
         ~> (subs["bookings"].state # "on" \/ id \in SeenIds("bookings"))
  /\ [][ \A l \in Listeners :
           /\ subs'[l].n # subs[l].n
                => /\ subs[l].state = "on"
                   /\ subs'[l].n = subs[l].n + 1
                   /\ subs'[l].seen =
                        IF l = "availability"
                        THEN RangeQuery(cal, subs[l].startDate, subs[l].endDate)
                        ELSE WithId(bookings)
           /\ subs[l].state = "closed" => subs'[l] = subs[l] ]_vars

\* A bookings listener that was handed the empty set before the booking was
\* created has been handed the set that holds it, and the calendar listener
\* has been called and then closed.
NewBookingDelivered ==
  /\ subs["bookings"].state = "on"
  /\ subs["bookings"].n >= 2
  /\ DOMAIN bookings # {}
  /\ SeenIds("bookings") = DOMAIN bookings
  /\ subs["availability"].state = "closed"
  /\ subs["availability"].n >= 1

\* An item a booking requires is missing from what the form holds.
Incomplete(data) ==
  \/ data.service = "" \/ data.date = 0 \/ data.time = ""
  \/ data.name = "" \/ data.email = "" \/ data.phone = ""

\* An item a booking requires is missing from a payload or a record.
Unfilled(b) ==
  \/ b.serviceId = "" \/ b.date = 0 \/ b.time = ""
  \/ b.clientName = "" \/ b.clientEmail = "" \/ b.clientPhone = ""

\* C15: a submission of a form in which the service, the date, the time,
\* the name, the e-mail address or the phone number is missing calls no
\* createBooking and writes nothing to the store: the form shows a notice
\* and is not submitting; so no call of createBooking is in flight for a
\* form, and no booking record is written, with one of them missing.
ValidatedBeforeStore ==
  /\ [](\A p \in Clients :
          /\ (form[p].isSubmitting \/ form[p].inFlight > 0)
               => ~Incomplete(form[p].data)
          /\ op[p].name = "createBooking" => ~Unfilled(op[p].booking)
          /\ Incomplete(form[p].data) => ~ENABLED FormCreateBooking(p))
  /\ [](\A id \in DOMAIN bookings : ~Unfilled(bookings[id]))
  /\ [][ \A p \in Clients :
           (Submit(p) /\ Incomplete(form[p].data))
             => /\ cal' = cal
                /\ bookings' = bookings
                /\ clock' = clock
                /\ pc' = pc
                /\ ~form'[p].isSubmitting
                /\ form'[p].inFlight = 0
                /\ form'[p].notice \in {FillOutThisField, MissingInformation} ]_vars

\* A form without a phone number has been submitted and shows the notice
\* of the browser, after a submission of the complete form went through.
IncompleteSubmissionRejected ==
  \E p \in Clients :
    /\ form[p].data.phone = ""
    /\ form[p].notice = FillOutThisField
    /\ form[p].onSubmit = 1
    /\ ~form[p].isSubmitting

\* C16: a form has at most one createBooking call in flight; from the
\* submission that starts the call until the call completes the form is
\* submitting and its submit button is disabled, so no second submission
\* can start; and the step in which the call completes, with a result or
\* with an error, leaves the button enabled.
OneSubmissionInFlight ==
  /\ [](\A p \in Clients :
          /\ form[p].inFlight \in {0, 1}
          /\ form[p].isSubmitting <=> form[p].inFlight = 1
          /\ op[p].name = "createBooking" => form[p].inFlight = 1
          /\ BackFrom({"createBooking"}) /\ ret.proc = p
               => form[p].inFlight = 1
          /\ form[p].inFlight = 1
               => SubmitDisabled(form[p]) /\ ~ENABLED Submit(p)
          /\ (Running /\ form[p].inFlight = 0)
               => ~SubmitDisabled(form[p]) /\ ENABLED Submit(p))
  /\ [][ \A p \in Clients :
           HandleSubmitResumes(p)
             => /\ form[p].inFlight = 1
                /\ form'[p].inFlight = 0
                /\ ~SubmitDisabled(form'[p]) ]_vars

\* A second submission of a form is in flight, its createBooking suspended
\* at the write of the slot, after the first one failed.
ResubmissionInFlight ==
  \E p \in Clients :
    /\ form[p].inFlight = 1
    /\ pc[p] = "write"
    /\ form[p].slotStatus = "taken"

\* The step is the completion of a submission of p's form.
Completes(p) ==
  /\ ret.proc = p
  /\ ret.op.name = "createBooking"
  /\ ret'.proc = "none"

\* C17: the step that completes a submission leaves the form showing
\* taken exactly when createBooking failed, whatever the error, and showing
\* available exactly when it returned; it calls onSubmit once when
\* createBooking returned and not at all when it failed; no other step
\* calls onSubmit or changes what the form shows, short of leaving the
\* form; and a form that shows taken after a failure lets the user go
\* back and lets the user submit again.
OutcomeSignalled ==
  /\ [](\A p \in Clients :
          (Running /\ form[p].slotStatus = "taken" /\ ~form[p].isSubmitting)
            => ENABLED GoBack(p) /\ ENABLED Submit(p))
  /\ [][ \A p \in Clients :
           IF Completes(p)
           THEN /\ (form'[p].slotStatus = "taken") <=> (ret.result.kind = "err")
                /\ (form'[p].slotStatus = "available")
                     <=> (ret.result.kind = "ok")
                /\ form'[p].onSubmit =
                     form[p].onSubmit + IF ret.result.kind = "ok" THEN 1 ELSE 0
                /\ ret.result.kind = "err"
                     => form'[p].notice = SlotMayBeTaken
           ELSE \/ /\ form'[p].onSubmit = form[p].onSubmit
                   /\ form'[p].slotStatus = form[p].slotStatus
                \/ form'[p] = NewForm ]_vars

\* The form shows taken after a createBooking that failed at its first
\* store call, the store holding no booking and no slot that could
\* conflict.
TakenWithoutConflict ==
  \E p \in Clients :
    /\ form[p].slotStatus = "taken"
    /\ form[p].notice = SlotMayBeTaken
    /\ form[p].onSubmit = 0
    /\ DOMAIN bookings = {}
    /\ DOMAIN cal = {}

\* The entry is the given one marked unavailable and bound to the client,
\* with its time and whatever else it held.
Rebound(entry, was, clientEmail) ==
  /\ DOMAIN entry = DOMAIN was \cup {"bookedBy"}
  /\ \A f \in DOMAIN was \ {"isAvailable", "bookedBy"} : entry[f] = was[f]
  /\ BoundTo(entry, clientEmail)

\* C18: the write of a bookTimeSlot(date, time, client) that read a document
\* for the date stores the slots list it read with every entry of that time
\* marked unavailable and bound to the client, every other entry as it was
\* and where it was, and one entry for the time, unavailable and bound to
\* the client, added at the end only when the list had none: the list is
\* longer by one at most.  The write changes the slots and updatedAt of the
\* document and nothing else: its date and its day-level isAvailable, and
\* every other document, are as they were.
SlotReplacedInPlace ==
  [][ (/\ ret'.proc # "none"
       /\ ret'.op.name \in {"bookTimeSlot", "createBooking"}
       /\ ret'.result.kind = "ok"
       /\ ret'.snap.exists)
      => LET a == BtsArgs(ret'.op)
             read == SnapSlots(ret'.snap)
             now == SlotsOf(cal'[a.date])
             at == EntriesAt(read, a.time) IN
         /\ a.date \in DOMAIN cal
         /\ DOMAIN cal' = DOMAIN cal
         /\ \A d \in DOMAIN cal \ {a.date} : cal'[d] = cal[d]
         /\ DOMAIN cal'[a.date] = DOMAIN cal[a.date] \cup {"slots", "updatedAt"}
         /\ \A f \in DOMAIN cal[a.date] \ {"slots", "updatedAt"} :
              cal'[a.date][f] = cal[a.date][f]
         /\ Len(now) = Len(read) + IF at = {} THEN 1 ELSE 0
         /\ \A i \in DOMAIN read :
              IF i \in at THEN Rebound(now[i], read[i], a.clientEmail)
              ELSE now[i] = read[i]
         /\ at = {} => now[Len(now)] = BookedSlot(a.time, a.clientEmail)
         /\ ret'.snap = ret'.replaced
              => /\ cal'[a.date].date = a.date
                 /\ cal'[a.date].isAvailable = ret'.snap.data.isAvailable ]_vars

\* A bookTimeSlot has added an entry for its time at the end of a list that
\* held entries of another time, one of them bound to another client.
SlotAppendedAfterOthers ==
  /\ BackOk({"bookTimeSlot", "createBooking"})
  /\ ret.snap.exists
  /\ ret.snap = ret.replaced
  /\ LET a == BtsArgs(ret.op)
         read == SnapSlots(ret.snap) IN
     /\ EntriesAt(read, a.time) = {}
     /\ Len(read) = 2
     /\ \E i \in DOMAIN read : ~read[i].isAvailable
     /\ Len(SlotsOf(cal[a.date])) = 3

\* The entries of a slots list that are bound to a client at a time other
\* than the given one.
OtherBindings(slots, time) ==
  { slots[i] : i \in { j \in DOMAIN slots :
                         slots[j].time # time /\ ~slots[j].isAvailable } }

\* The bindings that were written to the date between the read and the
\* write of the call that returned.
WrittenBetween ==
  OtherBindings(SnapSlots(ret.replaced), BtsArgs(ret.op).time)
    \ OtherBindings(SnapSlots(ret.snap), BtsArgs(ret.op).time)

\* C19: a bookTimeSlot that is suspended at its write, while the date holds
\* a slot of another time that a concurrent call bound after this call's
\* read, can write and return without error, whether it read a document or
\* none; and when it has, the document holds this call's slot and none of
\* the bindings written in between: the other call returned without error
\* and its slot is gone.
LostUpdate ==
  /\ \A p \in Clients :
       (/\ Running /\ pc[p] = "write" /\ clock <= MaxClock
        /\ OtherBindings(SnapSlots(GetDoc(cal, BtsArgs(op[p]).date)),
                         BtsArgs(op[p]).time)
             \ OtherBindings(SnapSlots(snap[p]), BtsArgs(op[p]).time) # {})
         => ENABLED (BtsWrite(p) /\ ret'.result.kind = "ok")
  /\ (BackOk({"bookTimeSlot", "createBooking"}) /\ WrittenBetween # {})
       => LET a == BtsArgs(ret.op)
              now == SlotsOf(cal[a.date]) IN
          /\ \E i \in EntriesAt(now, a.time) : BoundTo(now[i], a.clientEmail)
          /\ \A i \in DOMAIN now : now[i] \notin WrittenBetween
          /\ ~ret.snap.exists => now = <<BookedSlot(a.time, a.clientEmail)>>
          /\ ret.snap.exists
               => OtherBindings(now, a.time)
                    = OtherBindings(SnapSlots(ret.snap), a.time)

\* Two calls for different times of a date that had a document when both
\* read it have returned without error, and the document holds the slot of
\* the second one only.
SlotOverwritten ==
  /\ BackOk({"bookTimeSlot", "createBooking"})
  /\ ret.snap.exists
  /\ WrittenBetween # {}
  /\ Len(SnapSlots(ret.replaced)) = Len(SnapSlots(ret.snap)) + 1
  /\ \A p \in Clients : pc[p] = "ready"
  /\ OtherBindings(SlotsOf(cal[BtsArgs(ret.op).date]), BtsArgs(ret.op).time)
       = {}

CalendarCalls == {"getDoc", "setDoc", "updateDoc"}

\* C20: the first store call of createBooking is the addDoc of the booking
\* record, and the calendar is read and written only after the record is in
\* bookings; when the addDoc is rejected createBooking fails with no other
\* store call issued, so bookTimeSlot did not run, and its step changes
\* neither the bookings nor the calendar.
BookingWrittenFirst ==
  /\ [](\A p \in Clients :
          op[p].name = "createBooking"
            => /\ calls[p][1] = "addDoc"
               /\ \A i \in DOMAIN calls[p] \ {1} : calls[p][i] \in CalendarCalls
               /\ docRef[p] \in DOMAIN bookings
               /\ bookings[docRef[p]].time = op[p].booking.time
               /\ bookings[docRef[p]].clientEmail = op[p].booking.clientEmail)
  /\ [](BackFrom({"createBooking"})
          => /\ ret.calls[1] = "addDoc"
             /\ \A i \in DOMAIN ret.calls \ {1} : ret.calls[i] \in CalendarCalls
             /\ Len(ret.calls) > 1
                  => /\ ret.docRef \in DOMAIN bookings
                     /\ \A d \in DOMAIN ret.stamp :
                          bookings[ret.docRef].createdAt < ret.stamp[d])
  /\ [][ (/\ ret'.proc # "none"
          /\ ret'.op.name = "createBooking"
          /\ ret'.docRef = 0)
         => /\ ret'.result.kind = "err"
            /\ ret'.calls = <<"addDoc">>
            /\ ret'.snap = NoSnap
            /\ ret'.stamp = Empty
            /\ pc'[ret'.proc] = "ready"
            /\ bookings' = bookings
            /\ cal' = cal ]_vars

\* createBooking has failed at its addDoc while the store holds a booking
\* of another client and a document of the date.
AddDocRejected ==
  /\ BackFrom({"createBooking"})
  /\ ret.result.kind = "err"
  /\ ret.calls = <<"addDoc">>
  /\ ret.op.booking.date \in DOMAIN cal
  /\ DOMAIN bookings # {}
  /\ \A id \in DOMAIN bookings :
       bookings[id].clientEmail # ret.op.booking.clientEmail

====
